---- MODULE Spec2Model ----
(***************************************************************************)
(* A model of scripts/mermaid/generate-svgs.py: the batch run of main()    *)
(* over a file tree (availability check, discovery, freshness evaluation,  *)
(* render invocation, summary and exit code), and find_chrome_path().      *)
(*                                                                         *)
(* Paths are strings, as in the script.  A file tree is a function from    *)
(* the paths of its files to their modification times; the directories of  *)
(* a tree are the proper prefixes of its files' paths.                     *)
(***************************************************************************)
EXTENDS Integers, Sequences, FiniteSets, TLC

VARIABLES
    fs,          \* the scanned tree: file path -> modification time (or Dangling)
    home,        \* the paths of the files outside the tree that find_chrome_path looks at
    mmdc,        \* how the 'mmdc' executable behaves when launched
    pc,          \* where main() is
    run,         \* 1 in the first run of the tool, 2 in a second run on the same tree
    mmd_files,   \* main: the sorted list returned by find_mmd_files
    walked,      \* the directories os.walk visited in find_mmd_files
    idx,         \* main: the position of the for loop in mmd_files
    status,      \* main: the verdict of the file at idx, while it is rendered
    generated,   \* main: counter
    updated,     \* main: counter
    skipped,     \* main: counter
    errors,      \* main: the list of (mmd_file, error)
    printed,     \* what the run printed: the summary, the notices
    exit_code,   \* the exit status of the process
    raised,      \* the exception that left main(), if one did
    chrome_path, \* the last result of find_chrome_path
    evals,       \* history: the calls of needs_generation of this run, with what the tree held
    invoked,     \* history: the 'mmdc -i .. -o ..' invocations of this run
    first        \* history: what the first run ended with, during the second

vars == <<fs, home, mmdc, pc, run, mmd_files, walked, idx, status, generated, updated,
          skipped, errors, printed, exit_code, raised, chrome_path, evals, invoked, first>>

----------------------------------------------------------------------------
(* Bounds of the model *)

\* modification times are 0 .. MaxTime
MaxTime == 2
\* the time at which the renderer writes its outputs
Now == 1
\* directory depth of the trees find_mmd_files is applied to in SpecWalk
MaxDepth == 2

Times == 0 .. MaxTime
\* a symbolic link whose target is missing: listed by os.walk, but stat() fails
Dangling == -1
None == "None"

----------------------------------------------------------------------------
(* Strings *)

Char(s, i) == SubSeq(s, i, i)

StartsWith(s, p) == Len(p) <= Len(s) /\ SubSeq(s, 1, Len(p)) = p

\* str.endswith
EndsWith(s, p) == Len(p) <= Len(s) /\ SubSeq(s, Len(s) - Len(p) + 1, Len(s)) = p

\* sub in s
Contains(s, sub) == \E i \in 1 .. Len(s) - Len(sub) + 1 : SubSeq(s, i, i + Len(sub) - 1) = sub

UpperCase == "ABCDEFGHIJKLMNOPQRSTUVWXYZ"
LowerCase == "abcdefghijklmnopqrstuvwxyz"

LowerChar(c) ==
    IF \E i \in 1 .. Len(UpperCase) : Char(UpperCase, i) = c
    THEN Char(LowerCase, CHOOSE i \in 1 .. Len(UpperCase) : Char(UpperCase, i) = c)
    ELSE c

\* str.lower
RECURSIVE Lower(_)
Lower(s) == IF s = "" THEN "" ELSE LowerChar(Char(s, 1)) \o Lower(Tail(s))

\* the characters of the model's paths, in code point order
CodeOrder == " -./0123456789ABCDEFGHIJKLMNOPQRSTUVWXYZ_abcdefghijklmnopqrstuvwxyz"

Ord(c) == CHOOSE i \in 1 .. Len(CodeOrder) : Char(CodeOrder, i) = c

\* a < b for Python strings: by code point, a proper prefix first
RECURSIVE StrLess(_, _)
StrLess(a, b) ==
    IF b = "" THEN FALSE
    ELSE IF a = "" THEN TRUE
    ELSE IF Char(a, 1) = Char(b, 1) THEN StrLess(Tail(a), Tail(b))
    ELSE Ord(Char(a, 1)) < Ord(Char(b, 1))

\* sorted(S), S a set of strings
RECURSIVE Sorted(_)
Sorted(S) ==
    IF S = {} THEN <<>>
    ELSE LET m == CHOOSE x \in S : \A y \in S \ {x} : StrLess(x, y)
         IN  <<m>> \o Sorted(S \ {m})

\* str.replace(old, new): every non-overlapping occurrence, left to right
RECURSIVE Replace(_, _, _)
Replace(s, old, new) ==
    IF s = "" THEN ""
    ELSE IF StartsWith(s, old) THEN new \o Replace(SubSeq(s, Len(old) + 1, Len(s)), old, new)
    ELSE Char(s, 1) \o Replace(Tail(s), old, new)

\* os.path.join(a, b), b relative and a without a trailing separator
Join(a, b) == a \o "/" \o b

\* the position of the first "/" of s, 0 if it has none
FirstSlash(s) ==
    IF \E i \in 1 .. Len(s) : Char(s, i) = "/"
    THEN CHOOSE i \in 1 .. Len(s) : Char(s, i) = "/" /\ \A j \in 1 .. i - 1 : Char(s, j) # "/"
    ELSE 0

----------------------------------------------------------------------------
(* Directory listing: what os.walk yields for directory root of a tree     *)
(* whose files are the paths in P                                          *)

Below(P, root) == { SubSeq(p, Len(root) + 2, Len(p)) : p \in { q \in P : StartsWith(q, root \o "/") } }

\* the non-directory entries of root
FilesIn(P, root) == { r \in Below(P, root) : FirstSlash(r) = 0 }

\* the subdirectories of root
DirsIn(P, root) == { SubSeq(r, 1, FirstSlash(r) - 1) : r \in { q \in Below(P, root) : FirstSlash(q) > 0 } }

----------------------------------------------------------------------------
(* find_mmd_files *)

SkipDirs == {".git", ".venv", "__pycache__", "node_modules"}

\* the walk with dirs rebound instead of assigned in place: nothing is pruned
RECURSIVE WalkWithoutPruning(_, _)
WalkWithoutPruning(P, root) ==
    {root} \cup UNION { WalkWithoutPruning(P, Join(root, d)) : d \in DirsIn(P, root) }

\* the directories os.walk visits from root, the names in SkipDirs pruned from
\* dirs before the walk descends
RECURSIVE Walk(_, _)
Walk(P, root) ==
    {root} \cup UNION { Walk(P, Join(root, d)) : d \in DirsIn(P, root) \ SkipDirs }

\* the list returned in descending order
find_mmd_files_descending(P, root_dir) ==
    LET up == Sorted(UNION { { Join(root, file) : file \in { f \in FilesIn(P, root) : EndsWith(f, ".mmd") } } :
                             root \in Walk(P, root_dir) })
    IN  [k \in 1 .. Len(up) |-> up[Len(up) + 1 - k]]

find_mmd_files(P, root_dir) ==
    Sorted(UNION { { Join(root, file) : file \in { f \in FilesIn(P, root) : EndsWith(f, ".mmd") } } :
                   root \in Walk(P, root_dir) })

----------------------------------------------------------------------------
(* needs_generation *)

\* svg_file of needs_generation: mmd_file.replace('.mmd', '.svg')
SvgFile(mmd_file) == Replace(mmd_file, ".mmd", ".svg")

\* the extension appended instead of replaced
SvgFileAppended(mmd_file) == mmd_file \o ".svg"

\* svg_file of generate_svg
SvgFileOfGenerate(mmd_file) == Replace(mmd_file, ".mmd", ".svg")

\* svg_file of main, printed in the progress lines
SvgFileOfMain(mmd_file) == Replace(mmd_file, ".mmd", ".svg")

\* os.path.exists: false for a missing path and for a dangling link
Exists(F, p) == p \in DOMAIN F /\ F[p] # Dangling

\* the comparison with >= for >
NewerOrEqual(mmd_mtime, svg_mtime) == mmd_mtime >= svg_mtime

\* mmd_mtime > svg_mtime
Newer(mmd_mtime, svg_mtime) == mmd_mtime > svg_mtime

\* the verdict, or "raise" when os.path.getmtime raises
needs_generation(F, mmd_file) ==
    LET svg_file == SvgFile(mmd_file)
    IN  IF ~Exists(F, svg_file) THEN "missing"
        ELSE IF ~Exists(F, mmd_file) THEN "raise"
        ELSE IF Newer(F[mmd_file], F[svg_file]) THEN "outdated"
        ELSE "up_to_date"

----------------------------------------------------------------------------
(* find_chrome_path.  H is the set of the paths of the files it can see.   *)

\* os.path.expanduser('~')
home_dir == "/h"

\* the directories of H: the proper prefixes of its paths that end before a "/"
DirsOf(H) == UNION { { SubSeq(q, 1, i - 1) : i \in { j \in 2 .. Len(q) : Char(q, j) = "/" } } : q \in H }

\* os.path.exists for a file or a directory of H
PathExists(H, p) == p \in H \cup DirsOf(H)

system_chrome_paths ==
    << "/Applications/Google Chrome.app/Contents/MacOS/Google Chrome",
       "/Applications/Chromium.app/Contents/MacOS/Chromium",
       "/usr/bin/google-chrome",
       "/usr/bin/chromium" >>

puppeteer_base == Join(Join(Join(home_dir, ".cache"), "puppeteer"), "chrome")

\* the patterns, each as what follows the version wildcard
puppeteer_cache_paths ==
    << "chrome-mac-arm64/Google Chrome.app/Contents/MacOS/Google Chrome",
       "chrome-mac-x64/Google Chrome.app/Contents/MacOS/Google Chrome",
       "chrome-headless-shell-mac-arm64/chrome-headless-shell",
       "chrome-headless-shell-mac-x64/chrome-headless-shell",
       "chrome-headless-shell/chrome-headless-shell" >>

\* glob.glob(base/*/rest): the existing paths, * one name that does not start with "."
Glob(H, base, rest) ==
    { p \in H \cup DirsOf(H) :
        /\ StartsWith(p, base \o "/")
        /\ EndsWith(p, "/" \o rest)
        /\ Len(p) > Len(base) + Len(rest) + 2
        /\ LET star == SubSeq(p, Len(base) + 2, Len(p) - Len(rest) - 1)
           IN  FirstSlash(star) = 0 /\ Char(star, 1) # "." }

\* sorted(matches)[-1]
Last(S) == CHOOSE x \in S : \A y \in S \ {x} : StrLess(y, x)

\* what the body of the os.walk loop returns for one directory, None to go on
WalkHit(H, root) ==
    IF "chrome-headless-shell" \in FilesIn(H, root) THEN Join(root, "chrome-headless-shell")
    ELSE IF "chrome" \in FilesIn(H, root) /\ ~Contains(root, "headless") THEN Join(root, "chrome")
    ELSE None

\* the paths the walk from root can return: os.walk is top-down and lists the
\* subdirectories of a directory in the order of the directory's entries, which
\* the file system chooses
RECURSIVE WalkReturns(_, _)
WalkReturns(H, root) ==
    IF WalkHit(H, root) # None THEN {WalkHit(H, root)}
    ELSE UNION { WalkReturns(H, Join(root, d)) : d \in DirsIn(H, root) }

\* the strategy that decides: 1 system path, 2 glob pattern, 3 walk, 4 not found
ChromeStrategy(H) ==
    IF \E i \in 1 .. Len(system_chrome_paths) : PathExists(H, system_chrome_paths[i]) THEN 1
    ELSE IF \E i \in 1 .. Len(puppeteer_cache_paths) : Glob(H, puppeteer_base, puppeteer_cache_paths[i]) # {} THEN 2
    ELSE IF PathExists(H, puppeteer_base) /\ WalkReturns(H, puppeteer_base) # {} THEN 3
    ELSE 4

\* the paths find_chrome_path can return
find_chrome_path(H) ==
    CASE ChromeStrategy(H) = 1 ->
           LET i == CHOOSE k \in 1 .. Len(system_chrome_paths) :
                      /\ PathExists(H, system_chrome_paths[k])
                      /\ \A j \in 1 .. k - 1 : ~PathExists(H, system_chrome_paths[j])
           IN  {system_chrome_paths[i]}
      [] ChromeStrategy(H) = 2 ->
           LET i == CHOOSE k \in 1 .. Len(puppeteer_cache_paths) :
                      /\ Glob(H, puppeteer_base, puppeteer_cache_paths[k]) # {}
                      /\ \A j \in 1 .. k - 1 : Glob(H, puppeteer_base, puppeteer_cache_paths[j]) = {}
           IN  {Last(Glob(H, puppeteer_base, puppeteer_cache_paths[i]))}
      [] ChromeStrategy(H) = 3 -> WalkReturns(H, puppeteer_base)
      [] OTHER -> {None}

----------------------------------------------------------------------------
(* The run of main() *)

\* what e.stderr of a failed render can hold
Stderrs == {"Parse error on line 1", "Could not find Chrome"}

\* the uncaught exception leaves main(): the interpreter prints the traceback
\* and the process ends with status 1
Raise(exc) ==
    /\ raised' = exc
    /\ exit_code' = 1
    /\ pc' = "crashed"

\* sys.exit(code)
Exit(code) ==
    /\ exit_code' = code
    /\ pc' = "exited"
    /\ raised' = raised

\* check_mmdc without check=True: a non-zero exit of the query passes
check_mmdc_unchecked(m) ==
    CASE m \in {"ok", "nonzero"} -> "True"
      [] m = "notfound" -> "False"
      [] OTHER -> "raise"

\* check_mmdc: 'mmdc --version' runs and exits 0 ("ok"), is not found, exits
\* non-zero, or cannot be executed, an OSError that is not FileNotFoundError
check_mmdc(m) ==
    CASE m = "ok" -> "True"
      [] m \in {"notfound", "nonzero"} -> "False"
      [] OTHER -> "raise"

\* main: the availability check and the exit when it fails
CheckMmdc ==
    /\ pc = "check"
    /\ \/ /\ check_mmdc(mmdc) = "True"
          /\ pc' = "discover"
          /\ UNCHANGED <<printed, exit_code, raised>>
       \/ /\ check_mmdc(mmdc) = "False"
          /\ printed' = Append(printed, [kind |-> "not_found"])
          /\ Exit(1)
       \/ /\ check_mmdc(mmdc) = "raise"
          /\ Raise("PermissionError")
          /\ UNCHANGED printed
    /\ UNCHANGED <<fs, home, mmdc, run, mmd_files, walked, idx, status, generated, updated,
                   skipped, errors, chrome_path, evals, invoked, first>>

\* main: find_mmd_files(), the exit when it finds nothing, the counters
Discover ==
    /\ pc = "discover"
    /\ mmd_files' = find_mmd_files(DOMAIN fs, ".")
    /\ walked' = Walk(DOMAIN fs, ".")
    /\ \/ /\ mmd_files' = <<>>
          /\ printed' = Append(printed, [kind |-> "no_files"])
          /\ Exit(0)
          /\ UNCHANGED <<idx, generated, updated, skipped, errors>>
       \/ /\ mmd_files' # <<>>
          /\ printed' = Append(printed, [kind |-> "found", n |-> Len(mmd_files')])
          /\ generated' = 0
          /\ updated' = 0
          /\ skipped' = 0
          /\ errors' = <<>>
          /\ idx' = 1
          /\ pc' = "loop"
          /\ UNCHANGED <<exit_code, raised>>
    /\ UNCHANGED <<fs, home, mmdc, run, status, chrome_path, evals, invoked, first>>

\* main: the head of one iteration, needs_generation(mmd_file)
Evaluate ==
    /\ pc = "loop"
    /\ idx <= Len(mmd_files)
    /\ LET mmd_file == mmd_files[idx]
           verdict == needs_generation(fs, mmd_file)
       IN  /\ evals' = Append(evals, [file |-> mmd_file, verdict |-> verdict, tree |-> fs])
           /\ \/ /\ verdict = "raise"
                 /\ Raise("FileNotFoundError")
                 /\ UNCHANGED <<idx, skipped, status, printed>>
              \/ /\ verdict = "up_to_date"
                 /\ skipped' = skipped + 1
                 /\ idx' = idx + 1
                 /\ UNCHANGED <<pc, status, printed, exit_code, raised>>
              \/ /\ verdict \in {"missing", "outdated"}
                 /\ status' = verdict
                 /\ printed' = Append(printed, [kind |-> IF verdict = "missing" THEN "generating" ELSE "updating",
                                                file |-> SvgFileOfMain(mmd_file)])
                 /\ pc' = "render"
                 /\ UNCHANGED <<idx, skipped, exit_code, raised>>
    /\ UNCHANGED <<fs, home, mmdc, run, mmd_files, walked, generated, updated, errors,
                   chrome_path, invoked, first>>

\* the error recorded and the run ended at once
OnRenderErrorAborts(mmd_file, stderr) ==
    /\ errors' = Append(errors, <<mmd_file, stderr>>)
    /\ idx' = idx
    /\ Exit(1)

\* main, when generate_svg returned (False, stderr): the error is recorded and
\* the loop goes on
OnRenderError(mmd_file, stderr) ==
    /\ errors' = Append(errors, <<mmd_file, stderr>>)
    /\ idx' = idx + 1
    /\ pc' = "loop"
    /\ UNCHANGED <<exit_code, raised>>

\* generate_svg(mmd_file) and main's bookkeeping of its result
GenerateSvg ==
    /\ pc = "render"
    /\ LET mmd_file == mmd_files[idx]
           svg_file == SvgFileOfGenerate(mmd_file)
       IN  \E chrome \in find_chrome_path(home) :
             /\ chrome_path' = chrome
             /\ \/ \* mmdc exits 0, having read the source and written the output
                   /\ Exists(fs, mmd_file)
                   /\ invoked' = Append(invoked, [i |-> mmd_file, o |-> svg_file, chrome |-> chrome,
                                                  at |-> idx, result |-> "ok"])
                   /\ fs' = [q \in DOMAIN fs \cup {svg_file} |-> IF q = svg_file THEN Now ELSE fs[q]]
                   /\ generated' = IF status = "missing" THEN generated + 1 ELSE generated
                   /\ updated' = IF status = "outdated" THEN updated + 1 ELSE updated
                   /\ idx' = idx + 1
                   /\ pc' = "loop"
                   /\ UNCHANGED <<errors, exit_code, raised>>
                \/ \* mmdc exits non-zero: CalledProcessError
                   /\ invoked' = Append(invoked, [i |-> mmd_file, o |-> svg_file, chrome |-> chrome,
                                                  at |-> idx, result |-> "nonzero"])
                   /\ \E stderr \in Stderrs : OnRenderError(mmd_file, stderr)
                   /\ UNCHANGED <<fs, generated, updated>>
                \/ \* mmdc cannot be launched: the OSError is not caught
                   /\ invoked' = Append(invoked, [i |-> mmd_file, o |-> svg_file, chrome |-> chrome,
                                                  at |-> idx, result |-> "nolaunch"])
                   /\ Raise("FileNotFoundError")
                   /\ UNCHANGED <<fs, generated, updated, errors, idx>>
    /\ UNCHANGED <<home, mmdc, run, mmd_files, walked, status, skipped, printed, evals, first>>

\* any("Chrome" in str(e) or "puppeteer" in str(e).lower() for _, e in errors)
chrome_error(errs) ==
    \E k \in 1 .. Len(errs) : Contains(errs[k][2], "Chrome") \/ Contains(Lower(errs[k][2]), "puppeteer")

\* main: after the loop, the summary, the error listing and the exit
Summary ==
    /\ pc = "loop"
    /\ idx > Len(mmd_files)
    /\ LET line == [kind |-> "summary", generated |-> generated, updated |-> updated,
                    skipped |-> skipped, errors |-> Len(errors)]
           listing == [k \in 1 .. Len(errors) |-> [kind |-> "error", file |-> errors[k][1]]]
       IN  \/ /\ errors # <<>>
              /\ chrome_error(errors)
              /\ printed' = Append(Append(printed, line) \o listing, [kind |-> "chrome_note"])
              /\ Exit(1)
           \/ /\ errors # <<>>
              /\ ~chrome_error(errors)
              /\ printed' = Append(printed, line) \o listing
              /\ Exit(1)
           \/ /\ errors = <<>>
              /\ printed' = Append(printed, line)
              /\ Exit(0)
    /\ UNCHANGED <<fs, home, mmdc, run, mmd_files, walked, idx, status, generated, updated,
                   skipped, errors, chrome_path, evals, invoked, first>>

\* the tool is run a second time on the tree the first run left
Rerun ==
    /\ pc = "exited"
    /\ run = 1
    /\ run' = 2
    /\ first' = [printed |-> printed, invoked |-> invoked, exit_code |-> exit_code]
    /\ pc' = "check"
    /\ mmd_files' = <<>>
    /\ walked' = {}
    /\ idx' = 0
    /\ status' = None
    /\ generated' = 0
    /\ updated' = 0
    /\ skipped' = 0
    /\ errors' = <<>>
    /\ printed' = <<>>
    /\ exit_code' = None
    /\ raised' = None
    /\ chrome_path' = None
    /\ evals' = <<>>
    /\ invoked' = <<>>
    /\ UNCHANGED <<fs, home, mmdc>>

Next == CheckMmdc \/ Discover \/ Evaluate \/ GenerateSvg \/ Summary \/ Rerun

\* the state of a run that has not started
Fresh ==
    /\ pc = "check"
    /\ run = 1
    /\ mmd_files = <<>>
    /\ walked = {}
    /\ idx = 0
    /\ status = None
    /\ generated = 0
    /\ updated = 0
    /\ skipped = 0
    /\ errors = <<>>
    /\ printed = <<>>
    /\ exit_code = None
    /\ raised = None
    /\ chrome_path = None
    /\ evals = <<>>
    /\ invoked = <<>>
    /\ first = None

\* the trees of Spec: sources, outputs where the script and where the reader of
\* the documentation expect them, and files the scan must not report
CandSources == {"./a.mmd", "./x.mmd/c.mmd"}
CandOutputs == {"./a.svg", "./x.svg/c.svg"}
\* never read by the script: their times are not varied
CandOthers == {"./x.mmd/c.svg", "./.git/g.mmd"}

Trees ==
    { F \in UNION { [D -> Times \cup {Dangling}] : D \in SUBSET (CandSources \cup CandOutputs \cup CandOthers) } :
        \A p \in DOMAIN F : /\ p \in CandOutputs => F[p] # Dangling
                            /\ p \in CandOthers => F[p] = 0 }

Init ==
    /\ fs \in Trees
    /\ home = {"/usr/bin/chromium"}
    /\ mmdc \in {"ok", "notfound", "nonzero", "noperm"}
    /\ Fresh

Spec == Init /\ [][Next]_vars

----------------------------------------------------------------------------
(* find_mmd_files applied to trees of every shape up to MaxDepth *)

WalkNames == SkipDirs \cup {"src"}
WalkFiles == {"a.mmd", "ammd"}

\* the directories of depth at most n below "."
RECURSIVE DirPaths(_)
DirPaths(n) ==
    IF n = 0 THEN {"."}
    ELSE DirPaths(n - 1) \cup { Join(d, x) : d \in DirPaths(n - 1), x \in WalkNames }

WalkPaths == { Join(d, f) : d \in DirPaths(MaxDepth), f \in WalkFiles }

InitWalk ==
    /\ \E p1 \in WalkPaths, p2 \in WalkPaths : fs = [q \in {p1, p2} |-> 0]
    /\ home = {}
    /\ mmdc = "ok"
    /\ pc = "discover"
    /\ run = 1
    /\ mmd_files = <<>>
    /\ walked = {}
    /\ idx = 0
    /\ status = None
    /\ generated = 0
    /\ updated = 0
    /\ skipped = 0
    /\ errors = <<>>
    /\ printed = <<>>
    /\ exit_code = None
    /\ raised = None
    /\ chrome_path = None
    /\ evals = <<>>
    /\ invoked = <<>>
    /\ first = None

SpecWalk == InitWalk /\ [][Discover]_vars

----------------------------------------------------------------------------
(* find_chrome_path applied to the installations a machine can hold *)

CandHome ==
    { "/usr/bin/chromium",
      "/usr/bin/google-chrome",
      Join(puppeteer_base, "v1/chrome-headless-shell/chrome-headless-shell"),
      Join(puppeteer_base, "v2/chrome-headless-shell/chrome-headless-shell"),
      Join(puppeteer_base, "v1/chrome-mac-x64/Google Chrome.app/Contents/MacOS/Google Chrome"),
      Join(puppeteer_base, "v1/chrome-linux64/chrome"),
      Join(puppeteer_base, "v1/chrome-headless-shell-linux64/chrome-headless-shell"),
      Join(puppeteer_base, "v1/chrome-headless-shell-linux64/chrome"),
      Join(puppeteer_base, "v2/chrome"),
      Join(puppeteer_base, "v2/linux/chrome-headless-shell") }

\* generate_svg: chrome_path = find_chrome_path()
FindChrome ==
    /\ pc = "find_chrome"
    /\ \E chrome \in find_chrome_path(home) : chrome_path' = chrome
    /\ pc' = "found_chrome"
    /\ UNCHANGED <<fs, home, mmdc, run, mmd_files, walked, idx, status, generated, updated,
                   skipped, errors, printed, exit_code, raised, evals, invoked, first>>

InitChrome ==
    /\ home \in SUBSET CandHome
    /\ fs = <<>>
    /\ mmdc = "ok"
    /\ pc = "find_chrome"
    /\ run = 1
    /\ mmd_files = <<>>
    /\ walked = {}
    /\ idx = 0
    /\ status = None
    /\ generated = 0
    /\ updated = 0
    /\ skipped = 0
    /\ errors = <<>>
    /\ printed = <<>>
    /\ exit_code = None
    /\ raised = None
    /\ chrome_path = None
    /\ evals = <<>>
    /\ invoked = <<>>
    /\ first = None

SpecChrome == InitChrome /\ [][FindChrome]_vars

----------------------------------------------------------------------------
(* Properties *)

\* p with its last four characters, the extension '.mmd', replaced by '.svg'
WithSvgExtension(p) == SubSeq(p, 1, Len(p) - 4) \o ".svg"

\* the names between the separators of a path
RECURSIVE Components(_)
Components(p) ==
    IF FirstSlash(p) = 0 THEN <<p>>
    ELSE <<SubSeq(p, 1, FirstSlash(p) - 1)>> \o Components(SubSeq(p, FirstSlash(p) + 1, Len(p)))

\* a directory below the scan root on the path of directory d is in SkipDirs
UnderSkipped(d) == \E k \in 2 .. Len(Components(d)) : Components(d)[k] \in SkipDirs

\* the directory of a file path
DirName(p) == LET c == Components(p) IN SubSeq(p, 1, Len(p) - Len(c[Len(c)]) - 1)

HasSummary(pr) == \E k \in 1 .. Len(pr) : pr[k].kind = "summary"

IsNeeded(e) == e.verdict \in {"missing", "outdated"}
IsUpToDate(e) == e.verdict = "up_to_date"

\* C1: the output path that needs_generation checks and generate_svg hands to
\* the renderer is the source path with only its trailing '.mmd' replaced by
\* '.svg': same directory, same stem.
C1_OutputPathKeepsDirectoryAndStem ==
    /\ \A k \in 1 .. Len(evals) : SvgFile(evals[k].file) = WithSvgExtension(evals[k].file)
    /\ \A k \in 1 .. Len(invoked) : invoked[k].o = WithSvgExtension(invoked[k].i)

\* C2: the verdict of every call of needs_generation that returned: 'missing'
\* exactly when the output path did not exist in the tree of that moment; with
\* source and output both there, 'outdated' exactly when the source's time is
\* strictly greater, 'up_to_date' otherwise, equal times included.
C2_Verdict ==
    \A k \in 1 .. Len(evals) :
        LET e == evals[k]
            F == e.tree
            out == SvgFile(e.file)
            outThere == \E q \in DOMAIN F : q = out /\ F[q] \in Times
            srcThere == F[e.file] \in Times
        IN  /\ (e.verdict = "missing") <=> ~outThere
            /\ (outThere /\ srcThere) =>
                  /\ (e.verdict = "outdated") <=> (F[e.file] > F[out])
                  /\ (e.verdict = "up_to_date") <=> (F[e.file] <= F[out])

\* a call with equal timestamps, answered 'up_to_date'
C2_Witness ==
    \E k \in 1 .. Len(evals) :
        /\ evals[k].verdict = "up_to_date"
        /\ evals[k].tree[evals[k].file] = evals[k].tree[SvgFile(evals[k].file)]

\* C3: a non-zero exit of the renderer does not end the batch: the file is in
\* errors under its source path, the loop has moved past it, and when main
\* exits afterwards it has evaluated every file of the list, invoked the
\* renderer for each later file found missing or outdated, and printed the
\* summary.
C3_NonZeroExitDoesNotAbort ==
    \A k \in 1 .. Len(invoked) :
        invoked[k].result = "nonzero" =>
            /\ \E j \in 1 .. Len(errors) : errors[j][1] = invoked[k].i
            /\ mmd_files[invoked[k].at] = invoked[k].i
            /\ idx > invoked[k].at
            /\ pc = "crashed" => Len(evals) > invoked[k].at
            /\ pc = "exited" =>
                  /\ HasSummary(printed)
                  /\ Len(evals) = Len(mmd_files)
                  /\ \A j \in invoked[k].at + 1 .. Len(mmd_files) :
                        IsNeeded(evals[j]) => \E m \in k + 1 .. Len(invoked) : invoked[m].at = j

\* the first file failed, the second was rendered, the summary was printed
C3_Witness ==
    /\ pc = "exited"
    /\ HasSummary(printed)
    /\ Len(invoked) = 2
    /\ invoked[1].result = "nonzero"
    /\ invoked[2].result = "ok"

\* C4: a run ends with exit code 0 or 1, and with 1 exactly when the renderer
\* was unavailable at the pre-flight check or a render invocation failed.
C4_ExitCode ==
    pc \in {"exited", "crashed"} =>
        /\ exit_code \in {0, 1}
        /\ (exit_code = 1) <=>
              \/ mmdc # "ok"
              \/ \E k \in 1 .. Len(invoked) : invoked[k].result # "ok"

\* C5: when check_mmdc reports the renderer unavailable, the run does nothing
\* but exit with code 1: no discovery, no evaluation, no invocation.
C5_UnavailableGatesEverything ==
    mmdc \in {"notfound", "nonzero"} =>
        /\ pc \in {"check", "exited"}
        /\ mmd_files = <<>>
        /\ walked = {}
        /\ evals = <<>>
        /\ invoked = <<>>
        /\ pc = "exited" => exit_code = 1 /\ printed = <<[kind |-> "not_found"]>>

C5_Witness ==
    /\ mmdc = "nonzero"
    /\ pc = "exited"
    /\ exit_code = 1
    /\ \E p \in DOMAIN fs : EndsWith(p, ".mmd")

\* the first run ended with exit code 0: every invocation it made succeeded
FirstRunSucceeded == run = 2 /\ first.exit_code = 0

\* C6 as stated: after a first run in which every invocation succeeded, a
\* second run on the same tree reports generated = 0 and updated = 0.
C6_SecondRunRendersNothing ==
    (FirstRunSucceeded /\ pc = "exited" /\ HasSummary(printed)) => generated = 0 /\ updated = 0

\* no source the first run rendered is dated later than the render
NoSourceFromTheFuture == \A k \in 1 .. Len(first.invoked) : fs[first.invoked[k].i] <= Now

\* C6, amended: ... and no source the first run rendered has a modification
\* time later than the moment its output was written; then the second run
\* invokes nothing, skips every file and reports generated = 0, updated = 0.
C6_SecondRunRendersNothingUnlessFuture ==
    (FirstRunSucceeded /\ NoSourceFromTheFuture) =>
        /\ invoked = <<>>
        /\ pc # "crashed"
        /\ generated = 0
        /\ updated = 0
        /\ \A k \in 1 .. Len(evals) : evals[k].verdict = "up_to_date"

\* the second run has ended after a first run that rendered two files
C6_Witness ==
    /\ FirstRunSucceeded
    /\ NoSourceFromTheFuture
    /\ Len(first.invoked) = 2
    /\ pc = "exited"
    /\ HasSummary(printed)
    /\ skipped = 2

\* C7: the list is in strictly increasing path order and is evaluated in that
\* order; the invocations are, in order and once each, the evaluated files
\* whose verdict was 'missing' or 'outdated'; an 'up_to_date' file only adds
\* to skipped; and the summary comes after the whole list.
C7_InvocationsAreTheNeededFilesInOrder ==
    LET needed == SelectSeq(evals, IsNeeded)
    IN  /\ \A k \in 1 .. Len(mmd_files) - 1 : StrLess(mmd_files[k], mmd_files[k + 1])
        /\ \A k \in 1 .. Len(evals) : evals[k].file = mmd_files[k]
        /\ Len(invoked) = Len(needed) - (IF pc = "render" THEN 1 ELSE 0)
        /\ \A k \in 1 .. Len(invoked) : invoked[k].i = needed[k].file
        /\ skipped = Len(SelectSeq(evals, IsUpToDate))
        /\ HasSummary(printed) => Len(evals) = Len(mmd_files)

\* two files, the first skipped, the second rendered
C7_Witness ==
    /\ pc = "exited"
    /\ HasSummary(printed)
    /\ Len(mmd_files) = 2
    /\ evals[1].verdict = "up_to_date"
    /\ Len(invoked) = 1
    /\ invoked[1].i = mmd_files[2]

\* C8: find_mmd_files returns no file with a directory of the denylist on its
\* path, the walk visits no such directory, and every other file of the tree
\* whose name ends in '.mmd' is returned.
C8_ExcludedDirectories ==
    pc \in {"loop", "exited"} =>
        /\ \A k \in 1 .. Len(mmd_files) : ~UnderSkipped(DirName(mmd_files[k]))
        /\ \A d \in walked : ~UnderSkipped(d)
        /\ \A p \in DOMAIN fs :
              (EndsWith(p, ".mmd") /\ ~UnderSkipped(DirName(p))) => \E k \in 1 .. Len(mmd_files) : mmd_files[k] = p

\* one source inside an excluded directory below an ordinary one, one outside
C8_Witness ==
    /\ pc = "loop"
    /\ "./src/.venv/a.mmd" \in DOMAIN fs
    /\ mmd_files = <<"./src/a.mmd">>

\* C9: no exception leaves main() from a per-file step: a file whose timestamp
\* cannot be read and a file whose render cannot be launched or exits non-zero
\* are in errors, and the loop, once entered, never ends in a traceback.
C9_NoExceptionEscapes ==
    /\ \A k \in 1 .. Len(evals) :
          evals[k].verdict = "raise" => \E j \in 1 .. Len(errors) : errors[j][1] = evals[k].file
    /\ \A k \in 1 .. Len(invoked) :
          invoked[k].result # "ok" => \E j \in 1 .. Len(errors) : errors[j][1] = invoked[k].i
    /\ idx >= 1 => pc # "crashed" /\ raised = None

\* C10: when the walk of the puppeteer cache decides and the cache holds both a
\* 'chrome-headless-shell' file and a 'chrome' file in a directory whose path
\* has no 'headless', the result is the 'chrome-headless-shell' one.
C10_WalkPrefersHeadlessShell ==
    LET cache == { p \in home : StartsWith(p, puppeteer_base \o "/") }
    IN  ( /\ pc = "found_chrome"
          /\ \A i \in 1 .. Len(system_chrome_paths) : ~PathExists(home, system_chrome_paths[i])
          /\ \A i \in 1 .. Len(puppeteer_cache_paths) : Glob(home, puppeteer_base, puppeteer_cache_paths[i]) = {}
          /\ \E p \in cache : EndsWith(p, "/chrome-headless-shell")
          /\ \E p \in cache : EndsWith(p, "/chrome") /\ ~Contains(DirName(p), "headless") )
        => EndsWith(chrome_path, "/chrome-headless-shell")

====
